---- MODULE Spec2Model ----
(***************************************************************************)
(* The request / response / error pipeline and the authentication          *)
(* lifecycle of the PhotoShelter API clients:                              *)
(*   "V4"  PhotoShelterV4API of src/main.js                                *)
(*   "V3"  PhotoShelterV3API of src/main.js                                *)
(*   "V4p" PhotoShelterV4API of src/unnamed/part_000                       *)
(*   "V4b" a second client made by PhotoShelterV4API of src/main.js        *)
(* A call is an async function: it runs synchronously up to its first      *)
(* await (the fetch), and is resumed when the awaited promise settles.     *)
(* Each resumption is one action.                                          *)
(***************************************************************************)
EXTENDS Naturals, Sequences, FiniteSets, TLC

VARIABLES apiKey, authToken, org, isTwoFactor, info, calls, settled, granted

vars == <<apiKey, authToken, org, isTwoFactor, info, calls, settled, granted>>

session == <<authToken, org, isTwoFactor>>

-----------------------------------------------------------------------------
(* Bounds of the model *)

\* longest errors list a server response carries
MaxErrors == 2

\* most calls that are awaiting the network or a body read at one time
MaxInFlight == 2

-----------------------------------------------------------------------------
(* JavaScript values *)

Null == [t |-> "null"]
Undefined == [t |-> "undefined"]
Str(s) == [t |-> "string", s |-> s]
Bool(b) == [t |-> "boolean", b |-> b]
Obj(m) == [t |-> "object", m |-> m]
Arr(a) == [t |-> "array", a |-> a]
\* a string given piece by piece: each piece is a run of letters, digits and
\* "_" (as "org_id"), or one other character (as "&"), or, in an encoded
\* string, one escape (as "%26")
Chars(pieces) == [t |-> "text", chars |-> pieces]
\* the ArrayBuffer that holds the bytes of a body
ArrayBuffer(doc) == [t |-> "ArrayBuffer", bytes |-> doc]

EmptyObject == <<>>

\* ToBoolean, as applied by `!x`, `x ? a : b` and filter(Boolean)
Truthy(v) ==
  CASE v.t = "null" -> FALSE
    [] v.t = "undefined" -> FALSE
    [] v.t = "string" -> v.s /= ""
    [] v.t = "text" -> v.chars /= <<>>
    [] v.t = "boolean" -> v.b
    [] OTHER -> TRUE

\* v.k throws a TypeError when v is null or undefined
CanRead(v) == v.t \notin {"null", "undefined"}

\* v.k for a readable v: the member, or undefined when there is none
Get(v, k) == IF v.t = "object" /\ k \in DOMAIN v.m THEN v.m[k] ELSE Undefined

\* ToString, as applied by a template literal and by Array.prototype.join
ToStr(v) ==
  CASE v.t = "string" -> v.s
    [] v.t = "undefined" -> "undefined"
    [] v.t = "null" -> "null"
    [] v.t = "boolean" -> IF v.b THEN "true" ELSE "false"
    [] OTHER -> "[object]"

\* a thrown error; its message is the sequence of the pieces it is built of
Thrown(name, message) == [t |-> "error", name |-> name, message |-> message]

TypeError == Thrown("TypeError", <<>>)
SyntaxError == Thrown("SyntaxError", <<>>)

\* fetch rejects: the network call failed in transport, or was aborted
NetworkFailures ==
  {Thrown("TypeError", <<"fetch failed">>),
   Thrown("AbortError", <<"This operation was aborted">>)}

-----------------------------------------------------------------------------
(* Strings on the wire *)

\* ToString of a value that is written into a form or a query string
ToChars(v) ==
  CASE v.t = "text" -> v.chars
    [] v.t = "undefined" -> <<"undefined">>
    [] v.t = "null" -> <<"null">>
    [] OTHER -> <<ToStr(v)>>

\* encodeURIComponent of one piece: letters, digits and - _ . ! ~ * ' ( )
\* stay, every other character becomes the escape of its UTF-8 byte
EscapeOf(piece) ==
  CASE piece = "&" -> "%26"
    [] piece = "=" -> "%3D"
    [] piece = " " -> "%20"
    [] piece = "@" -> "%40"
    [] piece = "+" -> "%2B"
    [] OTHER -> piece

encodeURIComponent(chars) == [k \in DOMAIN chars |-> EscapeOf(chars[k])]

\* the application/x-www-form-urlencoded serializer of URLSearchParams:
\* letters, digits and * - . _ stay, a space becomes "+", every other
\* character becomes the escape of its byte
FormEscapeOf(piece) == IF piece = " " THEN "+" ELSE EscapeOf(piece)

FormEncode(chars) == [k \in DOMAIN chars |-> FormEscapeOf(chars[k])]

-----------------------------------------------------------------------------
(* Responses *)

\* a body on the wire: the text of a JSON value, or bytes that are no JSON
Json(v) == [t |-> "json", v |-> v]
Bytes(b) == [t |-> "bytes", b |-> b]

Response(status, statusText, body) ==
  [status |-> status, statusText |-> statusText, body |-> body]

\* Response.ok
Ok(response) == response.status \in 200..299

\* response.json(): the parsed value, or a SyntaxError
ParsesAsJson(response) == response.body.t = "json"
ParsedJson(response) == response.body.v

\* the token a login response holds: the token member of the body's value
\* (v4.0), or of the data member of the body's value (v3)
TokenIn(c, response) ==
  IF response.body.t /= "json" THEN Undefined
  ELSE LET v == response.body.v
           holder == IF c /= "V3" THEN v
                     ELSE IF v.t = "object" /\ "data" \in DOMAIN v.m THEN v.m.data
                     ELSE Undefined
       IN IF holder.t = "object" /\ "token" \in DOMAIN holder.m THEN holder.m.token
          ELSE Undefined

\* sequences over S of length at most n
SeqsUpTo(S, n) == UNION {[1..k -> S] : k \in 0..n}

-----------------------------------------------------------------------------
(* The clients *)

Clients == {"V4", "V3", "V4p"}

MainClients == {"V4", "V3"}

\* every client that is constructed: one of each kind, and a second one of
\* the v4.0 kind of main.js
Instances == Clients \cup {"V4b"}

\* a session kept in the module, shared by the clients a function constructs
OwnersShared(c) == IF c \in {"V4", "V4b"} THEN {"V4", "V4b"} ELSE {c}

\* the clients whose session the login of c assigns: authToken, org and
\* isTwoFactor are locals of the call that constructed c
Owners(c) == {c}

baseUrl(c) ==
  CASE c \in {"V4", "V4b"} -> "https://www.photoshelter.com/psapi/v4.0"
    [] c = "V3" -> "https://www.photoshelter.com/psapi/v3"
    [] c = "V4p" -> "https://www.photoshelter.com/psapi/v4.0"

\* headers of an options object (spreading undefined adds nothing)
HeadersOf(options) ==
  IF "headers" \in DOMAIN options THEN options.headers ELSE EmptyObject

\* { ...a, ...b }: a later key overwrites an earlier one
Spread(a, b) == b @@ a

-----------------------------------------------------------------------------
(* The endpoint operations: thin wrappers around request(endpoint, params, options) *)

FormUrlencoded == "application/x-www-form-urlencoded"

\* an object written as its own keys in insertion order, each with its value
Entry(key, value) == <<key, value>>

\* what callers pass as params: nothing, a value with "&", "=" and a space in
\* it, and an empty string next to a number
ParamsGiven ==
  { <<>>,
    << Entry(<<"query">>, Chars(<<"a", "&", "b", "=", "c", " ", "d">>)) >>,
    << Entry(<<"page">>, Chars(<<"1">>)), Entry(<<"query">>, Chars(<<>>)) >> }

FaceData == << Entry(<<"person_id">>, Chars(<<"p1">>)) >>

\* the data of a resource that is created or updated
ResourceData == << Entry(<<"name">>, Chars(<<"n", " ", "1">>)) >>

Endpoint(name, endpoint, params, options) ==
  [name |-> name, endpoint |-> endpoint, params |-> params, options |-> options]

Endpoints(c) ==
  CASE c \in {"V4", "V4b"} ->
         { Endpoint("collections.getAll", "/collections", params, EmptyObject) :
             params \in ParamsGiven }
         \cup
         { Endpoint("faces.add", "/faces", FaceData,
                    [method |-> "POST", headers |-> ("Content-Type" :> FormUrlencoded)]),
           Endpoint("faces.updateById", "/faces/f1", FaceData,
                    [method |-> "PATCH", headers |-> ("Content-Type" :> FormUrlencoded)]),
           Endpoint("collections.create", "/collections", ResourceData, [method |-> "POST"]),
           Endpoint("galleries.updateById", "/galleries/g1", ResourceData,
                    [method |-> "PATCH"]),
           Endpoint("mlMetadata.update", "/ml-metadata/m1", ResourceData,
                    [method |-> "PUT"]) }
    [] c = "V3" ->
         { Endpoint("workspaces.getMediaReview", "/workspace/w1/media/m1/review",
                    <<>>, EmptyObject) }
    [] c = "V4p" ->
         { Endpoint("collections.getAll", "/collections", params, EmptyObject) :
             params \in ParamsGiven }
         \cup
         { Endpoint("faces.create", "/faces", FaceData, [method |-> "POST"]) }

-----------------------------------------------------------------------------
(* request: the synchronous part, up to the fetch *)

\* a check that only looks for undefined: if (authToken === undefined)
NoAuthTokenOnlyUndefined(token) == token = Undefined

\* if (!authToken) throw ...
NoAuthToken(token) == ~Truthy(token)

NoAuthTokenError ==
  Thrown("Error", <<"No auth token. Make sure to authenticate.login() first">>)

\* the headers without the API key
RequestHeadersNoKey(options, token, key) ==
  Spread(HeadersOf(options),
         ("X-PS-Auth-Token" :> ToStr(token)) @@ ("Content-Type" :> "application/json"))

\* options.headers = { ...options.headers, "X-PS-Auth-Token": ..., ... }
RequestHeaders(options, token, key) ==
  Spread(HeadersOf(options),
         ("X-PS-Auth-Token" :> ToStr(token)) @@ ("X-PS-API-Key" :> key)
           @@ ("Content-Type" :> "application/json"))

\* a join of the strings in a: Array.prototype.join(separator)
JoinChars(a, separator) ==
  LET RECURSIVE From(_)
      From(k) == IF k > Len(a) THEN <<>>
                 ELSE IF k = Len(a) THEN a[k]
                 ELSE a[k] \o <<separator>> \o From(k + 1)
  IN From(1)

\* new URLSearchParams(params): the list of the own keys of params, each with
\* its value turned into a string
URLSearchParams(params) ==
  [k \in DOMAIN params |-> Entry(params[k][1], ToChars(params[k][2]))]

\* searchParams.toString(): name=value of every pair of the list, both
\* form-encoded, joined with "&"
SerializeForm(list) ==
  JoinChars([k \in DOMAIN list |->
               FormEncode(list[k][1]) \o <<"=">> \o FormEncode(list[k][2])], "&")

\* a query string that writes each pair as it is: `${key}=${value}`
SearchPlain(params) ==
  JoinChars([k \in DOMAIN params |->
               params[k][1] \o <<"=">> \o ToChars(params[k][2])], "&")

\* a query string that leaves out the pairs whose value is falsy, as toForm does
SearchTruthy(params) ==
  SerializeForm(URLSearchParams(SelectSeq(params, LAMBDA e : Truthy(e[2]))))

\* url.search = new URLSearchParams(params).toString()
Search(params) == SerializeForm(URLSearchParams(params))

\* fetch(url, options); fetch sends a GET when options names no method, and
\* no body, as options never has one
RequestFetch(c, e, token, key) ==
  [url |-> <<baseUrl(c), e.endpoint>>,
   search |-> Search(e.params),
   method |-> IF "method" \in DOMAIN e.options THEN e.options.method ELSE "GET",
   headers |-> RequestHeaders(e.options, token, key),
   body |-> Undefined]

\* what callers pass to login: the organization left out, given, and empty
\* strings
LoginArgs ==
  { [email |-> Chars(<<"a", "@", "b">>), password |-> Chars(<<"p", "&", "w">>),
     orgId |-> Undefined],
    [email |-> Chars(<<"a", "@", "b">>), password |-> Chars(<<"p", "&", "w">>),
     orgId |-> Chars(<<"o", " ", "1">>)],
    [email |-> Chars(<<"a", "@", "b">>), password |-> Chars(<<>>),
     orgId |-> Chars(<<>>)] }

\* { email, password, mode: "token", org_id: orgId }
LoginForm(args) ==
  << Entry(<<"email">>, args.email), Entry(<<"password">>, args.password),
     Entry(<<"mode">>, Chars(<<"token">>)), Entry(<<"org_id">>, args.orgId) >>

\* toForm of part_000: every key, with its value turned into a string
toFormEvery(obj) ==
  JoinChars([k \in DOMAIN obj |->
               encodeURIComponent(obj[k][1]) \o <<"=">>
                 \o encodeURIComponent(ToChars(obj[k][2]))], "&")

\* toForm of main.js: a key with a falsy value maps to "", which
\* filter(Boolean) drops
toFormTruthy(obj) == toFormEvery(SelectSeq(obj, LAMBDA e : Truthy(e[2])))

\* a toForm that filters in no client
toFormUnfiltered(c, obj) == toFormEvery(obj)

toForm(c, obj) == IF c = "V4p" THEN toFormEvery(obj) ELSE toFormTruthy(obj)

\* a login path that is the same in every client
LoginPathSame(c) == "/authenticate"

LoginPath(c) == IF c = "V3" THEN "/mem/authenticate" ELSE "/authenticate"

\* fetch(`${baseUrl}/authenticate`, { method: "POST", headers: {...}, body })
LoginFetch(c, key, args) ==
  [url |-> <<baseUrl(c), LoginPath(c)>>,
   search |-> <<>>,
   method |-> "POST",
   headers |-> ("content-type" :> FormUrlencoded) @@ ("X-PS-Api-Key" :> key),
   body |-> Chars(toForm(c, LoginForm(args)))]

-----------------------------------------------------------------------------
(* handleErrors *)

RequestFailed == "Request Failed. Request Response: "

\* response.status === "404": a number is never strictly equal to a string
IsNotFoundStrict(response) == FALSE

\* response.status == "404": the number 404 is loosely equal to the string "404"
IsNotFound(response) == response.status = 404

\* main.js: the 404 branch, thrown before the body is read
NotFoundError(response, location) ==
  Thrown("Error", <<RequestFailed, location, " = ", response.statusText>>)

\* no filter: every element is kept
FilterNothing(s) == s

\* the elements of s that satisfy Truthy, in order
RECURSIVE FilterBoolean(_)
FilterBoolean(s) ==
  IF s = <<>> THEN <<>>
  ELSE IF Truthy(Head(s)) THEN <<Head(s)>> \o FilterBoolean(Tail(s))
       ELSE FilterBoolean(Tail(s))

\* Array.prototype.join: the pieces of the joined string (undefined and null
\* elements are joined as the empty string)
RECURSIVE Join(_, _)
Join(s, sep) ==
  IF s = <<>> THEN <<>>
  ELSE LET piece == IF CanRead(s[1]) THEN ToStr(s[1]) ELSE ""
       IN IF Len(s) = 1 THEN <<piece>> ELSE <<piece, sep>> \o Join(Tail(s), sep)

\* main.js: json.errors.map((e) => e.title).filter(Boolean).join(" | "), and the throw
ErrorsError(json, location) ==
  IF ~CanRead(json) THEN TypeError
  ELSE LET errors == Get(json, "errors") IN
    IF errors.t /= "array" THEN TypeError
    ELSE IF \E i \in 1..Len(errors.a) : ~CanRead(errors.a[i]) THEN TypeError
    ELSE LET titles == [i \in 1..Len(errors.a) |-> Get(errors.a[i], "title")]
             msg == Join(FilterBoolean(titles), " | ")
         IN Thrown("Error", <<RequestFailed, location, " = ">> \o msg)

\* part_000: json.errors.reduce((n, t, i) => { t += n.title + i == ... }, "").
\* The callback returns nothing, so from the second element on the accumulator n
\* is undefined and n.title throws. The result is the accumulator, or a TypeError.
RECURSIVE Reduce(_, _)
Reduce(a, n) ==
  IF a = <<>> THEN n
  ELSE IF n = TypeError \/ ~CanRead(n) THEN TypeError
       ELSE Reduce(Tail(a), Undefined)

\* part_000: handleErrors(json)
ErrorsErrorP(json) ==
  IF ~CanRead(json) THEN TypeError
  ELSE LET errors == Get(json, "errors") IN
    IF errors.t /= "array" THEN TypeError
    ELSE LET msg == Reduce(errors.a, Str("")) IN
      IF msg = TypeError THEN TypeError
      ELSE Thrown("Error", <<RequestFailed>> \o (IF ToStr(msg) = "" THEN <<>> ELSE <<ToStr(msg)>>))

-----------------------------------------------------------------------------
(* What the servers answer *)

SessionJson(token, o, twoFactor) ==
  Obj([token |-> Str(token), org |-> Str(o), two_factor |-> Bool(twoFactor)])

DataJson == Obj([id |-> Str("abc")])

\* the values a success body holds: bare (v4.0) and inside a data envelope (v3)
OkValues ==
  LET bare == {SessionJson("t1", "o1", FALSE), SessionJson("t2", "o2", TRUE), DataJson}
  IN bare \cup {Obj([data |-> v, meta |-> Obj([total |-> Str("1")])]) : v \in bare}
          \cup {Obj(EmptyObject), Null}

NoJsonBytes == Bytes(<<137, 80, 78, 71>>)

\* a body of plain text that is no JSON
TextBytes == Bytes(<<79, 75>>)

OkBodies == {Json(v) : v \in OkValues} \cup {NoJsonBytes, TextBytes}

\* the entries of an errors list: titled, with an empty title, untitled, and null
ErrorEntries ==
  { Obj([title |-> Str("Invalid field")]), Obj([title |-> Str("Missing param")]),
    Obj([title |-> Str("")]), Obj([detail |-> Str("d")]), Null }

ErrorBodies ==
  {Json(Obj([errors |-> Arr(l)])) : l \in SeqsUpTo(ErrorEntries, MaxErrors)}
    \cup {Json(Obj(EmptyObject)), Json(Null), NoJsonBytes}

FewErrorBodies ==
  { Json(Obj([errors |-> Arr(<<Obj([title |-> Str("Invalid field")])>>)])), NoJsonBytes }

Responses ==
  {Response(200, "OK", b) : b \in OkBodies}
    \cup {Response(400, "Bad Request", b) : b \in ErrorBodies}
    \cup {Response(500, "Internal Server Error", b) : b \in FewErrorBodies}
    \cup {Response(404, "Not Found", b) : b \in FewErrorBodies}

-----------------------------------------------------------------------------
(* Calls in flight and their outcomes *)

NoRequest ==
  [url |-> <<>>, search |-> <<>>, method |-> "", headers |-> EmptyObject,
   body |-> Undefined]
NoResponse == Response(0, "", Bytes(<<>>))

\* no fetch of the call has rejected
NoFailure == Null

\* no later login has stored a token yet
NotOvertaken == Null

\* a call that has issued its fetch and awaits it; args is what the caller
\* passed, failure the error its fetch rejected with, and overtakenBy, for a
\* login, the token that a login of the same client invoked after it has
\* stored in the meantime
Call(c, kind, location, args, req) ==
  [client |-> c, kind |-> kind, location |-> location, args |-> args, req |-> req,
   fetches |-> 1, pc |-> "fetch", response |-> NoResponse, failure |-> NoFailure,
   overtakenBy |-> NotOvertaken]

\* a call that threw before any fetch
Unsent(c, kind, location, args) ==
  [client |-> c, kind |-> kind, location |-> location, args |-> args, req |-> NoRequest,
   fetches |-> 0, pc |-> "start", response |-> NoResponse, failure |-> NoFailure,
   overtakenBy |-> NotOvertaken]

\* the places of the calls in flight
CallIds == 1..MaxInFlight

RemoveAt(s, i) == SubSeq(s, 1, i - 1) \o SubSeq(s, i + 1, Len(s))

\* the outcome the last step delivered to the caller, if it delivered one
NoOutcome == [status |-> "none"]
Outcome(call, status, value) == [status |-> status, call |-> call, value |-> value]

Resolve(i, value) ==
  /\ calls' = RemoveAt(calls, i)
  /\ settled' = Outcome(calls[i], "resolved", value)

Reject(i, error) ==
  /\ calls' = RemoveAt(calls, i)
  /\ settled' = Outcome(calls[i], "rejected", error)

Await(i, pc) ==
  /\ calls' = [calls EXCEPT ![i].pc = pc]
  /\ settled' = NoOutcome

-----------------------------------------------------------------------------
(* The state after construction *)

Info(c) ==
  CASE c \in {"V4", "V4b"} -> [authToken |-> Null, org |-> Null, isTwoFactor |-> Null]
    [] c = "V4p" -> [authToken |-> Null]
    [] c = "V3" -> EmptyObject

\* an exposed record that reads the variables each time it is looked at
ExposedLive(shown, c, token, o, flag) ==
  CASE c \in {"V4", "V4b"} -> [authToken |-> token, org |-> o, isTwoFactor |-> flag]
    [] c = "V4p" -> [authToken |-> token]
    [] c = "V3" -> shown

\* what the exposed record shows once the variables hold token, o and flag:
\* { authToken, org, isTwoFactor } holds the values the variables had when it
\* was made, and an assignment to a variable leaves it as it is
Exposed(shown, c, token, o, flag) == shown

\* the apiKey argument each client is constructed with
ConstructedKey(c) == "key-" \o c

Init ==
  /\ apiKey = [c \in Instances |-> ConstructedKey(c)]
  /\ authToken = [c \in Instances |-> Null]
  /\ org = [c \in Instances |-> Null]
  /\ isTwoFactor = [c \in Instances |-> Null]
  /\ info = [c \in Instances |-> Info(c)]
  /\ calls = <<>>
  /\ settled = NoOutcome
  /\ granted = [c \in Instances |-> Null]

-----------------------------------------------------------------------------
(* The operations *)

\* an operation that is let through while a login of its client is in flight
RequestDuringLogin(n, c, e) ==
  /\ Len(calls) < n
  /\ IF NoAuthToken(authToken[c])
          /\ ~\E j \in DOMAIN calls : calls[j].kind = "login" /\ calls[j].client = c
       THEN /\ settled' = Outcome(Unsent(c, "request", e.endpoint, e.params), "rejected",
                                    NoAuthTokenError)
            /\ calls' = calls
       ELSE /\ calls' = Append(calls, Call(c, "request", e.endpoint, e.params,
                                           RequestFetch(c, e, authToken[c], apiKey[c])))
            /\ settled' = NoOutcome
  /\ UNCHANGED <<apiKey, authToken, org, isTwoFactor, info, granted>>

\* an endpoint operation is invoked, by a caller that has fewer than n calls in
\* flight: request(), up to the fetch
Request(n, c, e) ==
  /\ Len(calls) < n
  /\ IF NoAuthToken(authToken[c])
       THEN /\ settled' = Outcome(Unsent(c, "request", e.endpoint, e.params), "rejected",
                                    NoAuthTokenError)
            /\ calls' = calls
       ELSE /\ calls' = Append(calls, Call(c, "request", e.endpoint, e.params,
                                           RequestFetch(c, e, authToken[c], apiKey[c])))
            /\ settled' = NoOutcome
  /\ UNCHANGED <<apiKey, authToken, org, isTwoFactor, info, granted>>

\* authenticate.login is invoked: up to the fetch
Login(n, c, args) ==
  /\ Len(calls) < n
  /\ calls' = Append(calls, Call(c, "login", "login", args, LoginFetch(c, apiKey[c], args)))
  /\ settled' = NoOutcome
  /\ UNCHANGED <<apiKey, authToken, org, isTwoFactor, info, granted>>

\* a failed login clears the token: catch (error) { authToken = null; throw error }
FetchFailsClears(i, error) ==
  /\ i \in DOMAIN calls
  /\ calls[i].pc = "fetch"
  /\ Reject(i, error)
  /\ authToken' = IF calls[i].kind = "login"
                    THEN [authToken EXCEPT ![calls[i].client] = Null] ELSE authToken
  /\ UNCHANGED <<apiKey, org, isTwoFactor, info, granted>>

\* a failed fetch is fetched once more before the call gives up
FetchFailsRetries(i, error) ==
  /\ i \in DOMAIN calls
  /\ calls[i].pc = "fetch"
  /\ IF calls[i].fetches < 2
       THEN calls' = [calls EXCEPT ![i].fetches = @ + 1] /\ settled' = NoOutcome
       ELSE /\ calls' = RemoveAt(calls, i)
            /\ settled' = Outcome([calls[i] EXCEPT !.failure = error], "rejected", error)
  /\ UNCHANGED <<apiKey, authToken, org, isTwoFactor, info, granted>>

\* the failure comes wrapped: throw new Error(`Request Failed ... ${error.message}`)
FetchFailsWraps(i, error) ==
  /\ i \in DOMAIN calls
  /\ calls[i].pc = "fetch"
  /\ calls' = RemoveAt(calls, i)
  /\ settled' = Outcome([calls[i] EXCEPT !.failure = error], "rejected",
                        Thrown("Error", <<RequestFailed>> \o error.message))
  /\ UNCHANGED <<apiKey, authToken, org, isTwoFactor, info, granted>>

\* the fetch rejects: catch (error) { throw error }
FetchFails(i, error) ==
  /\ i \in DOMAIN calls
  /\ calls[i].pc = "fetch"
  /\ calls' = RemoveAt(calls, i)
  /\ settled' = Outcome([calls[i] EXCEPT !.failure = error], "rejected", error)
  /\ UNCHANGED <<apiKey, authToken, org, isTwoFactor, info, granted>>

\* without the test of response.ok: only a 404 is taken for a failure
AfterFetchNoOkTest(c, response) ==
  IF c = "V4p" THEN "json"
  ELSE IF IsNotFound(response) THEN ""
  ELSE "responseType.json"

\* the pc a call goes to when its fetch resolves with a response, "" when the
\* call throws at once
AfterFetch(c, response) ==
  IF c = "V4p" THEN "json"
  ELSE IF Ok(response) THEN "responseType.json"
  ELSE IF IsNotFound(response) THEN ""
  ELSE "handleErrors.json"

\* the token is tested once more when the response is there: a call whose
\* header no longer holds the stored token is rejected
FetchResolvesRechecks(i, response) ==
  /\ i \in DOMAIN calls
  /\ calls[i].pc = "fetch"
  /\ LET pc == AfterFetch(calls[i].client, response) IN
       IF calls[i].kind = "request"
          /\ calls[i].req.headers["X-PS-Auth-Token"] /= ToStr(authToken[calls[i].client])
         THEN /\ calls' = RemoveAt(calls, i)
              /\ settled' = Outcome([calls[i] EXCEPT !.response = response], "rejected",
                                    NoAuthTokenError)
       ELSE IF pc = ""
         THEN /\ calls' = RemoveAt(calls, i)
              /\ settled' = Outcome([calls[i] EXCEPT !.response = response], "rejected",
                                    NotFoundError(response, calls[i].location))
         ELSE /\ calls' = [calls EXCEPT ![i].pc = pc, ![i].response = response]
              /\ settled' = NoOutcome
  /\ UNCHANGED <<apiKey, authToken, org, isTwoFactor, info, granted>>

\* the fetch resolves with a response
FetchResolves(i, response) ==
  /\ i \in DOMAIN calls
  /\ calls[i].pc = "fetch"
  /\ LET pc == AfterFetch(calls[i].client, response) IN
       IF pc = ""
         THEN /\ calls' = RemoveAt(calls, i)
              /\ settled' = Outcome([calls[i] EXCEPT !.response = response], "rejected",
                                    NotFoundError(response, calls[i].location))
         ELSE /\ calls' = [calls EXCEPT ![i].pc = pc, ![i].response = response]
              /\ settled' = NoOutcome
  /\ UNCHANGED <<apiKey, authToken, org, isTwoFactor, info, granted>>

\* a responseType that is the same in both clients: return await response.json()
ResponseTypeWhole(c, json) == json

\* responseType: what it returns for a body that parsed as json
ResponseTypeJson(c, json) == IF c = "V3" THEN Get(json, "data") ELSE json

\* responseType: json.data throws inside the try block when json is null
ResponseTypeCatches(c, json) == c = "V3" /\ ~CanRead(json)

\* a token that is set once and kept: authToken = authToken || json.token
StoredTokenKept(old, json) == IF Truthy(old) THEN old ELSE Get(json, "token")

\* authToken = json.token
StoredToken(old, json) == Get(json, "token")

\* an org that is set once and kept: org = org || json.org
StoredOrgKept(old, json) == IF Truthy(old) THEN old ELSE Get(json, "org")

\* org = json.org
StoredOrg(old, json) == Get(json, "org")

\* the calls in flight when the login at place i has stored token: the logins
\* of its client that were invoked before it are overtaken
Overtaking(i, token) ==
  [j \in DOMAIN calls |->
     IF j < i /\ calls[j].kind = "login" /\ calls[j].client = calls[i].client
       THEN [calls[j] EXCEPT !.overtakenBy = token] ELSE calls[j]]

\* a login that was overtaken leaves the session of the later invoked login
LoginStoresUnlessOvertaken(i, json) ==
  LET c == calls[i].client IN
  IF ~CanRead(json)
    THEN /\ Reject(i, TypeError)
         /\ UNCHANGED <<authToken, org, isTwoFactor, granted>>
  ELSE IF calls[i].overtakenBy /= NotOvertaken
    THEN /\ Resolve(i, Undefined)
         /\ UNCHANGED <<authToken, org, isTwoFactor, granted>>
    ELSE /\ authToken' = [authToken EXCEPT ![c] = Get(json, "token")]
         /\ granted' = [granted EXCEPT ![c] = TokenIn(c, calls[i].response)]
         /\ org' = [org EXCEPT ![c] = Get(json, "org")]
         /\ isTwoFactor' = [isTwoFactor EXCEPT ![c] = Get(json, "two_factor")]
         /\ calls' = RemoveAt(Overtaking(i, Get(json, "token")), i)
         /\ settled' = Outcome(calls[i], "resolved", Undefined)

\* login, after the body: authToken = json.token; org = json.org; ...
\* (granted records the token that the response of the resolving login holds)
LoginStores(i, json) ==
  LET c == calls[i].client IN
  IF ~CanRead(json)
    THEN /\ Reject(i, TypeError)
         /\ UNCHANGED <<authToken, org, isTwoFactor, granted>>
    ELSE /\ authToken' = [d \in DOMAIN authToken |->
                           IF d \in Owners(c) THEN StoredToken(authToken[d], json)
                           ELSE authToken[d]]
         /\ granted' = [granted EXCEPT ![c] = TokenIn(c, calls[i].response)]
         /\ org' = IF c = "V4p" THEN org
                   ELSE [d \in DOMAIN org |->
                           IF d \in Owners(c) THEN StoredOrg(org[d], json) ELSE org[d]]
         /\ isTwoFactor' = IF c = "V4p" THEN isTwoFactor
                           ELSE [d \in DOMAIN isTwoFactor |->
                                   IF d \in Owners(c) THEN Get(json, "two_factor")
                                   ELSE isTwoFactor[d]]
         /\ calls' = RemoveAt(Overtaking(i, StoredToken(authToken[c], json)), i)
         /\ settled' = Outcome(calls[i], "resolved", Undefined)

\* every call, not only login, stores the session it finds in the body
ReturnsStores(i, value) ==
  IF CanRead(value)
    THEN LoginStores(i, value)
    ELSE Resolve(i, value) /\ UNCHANGED <<authToken, org, isTwoFactor, granted>>

\* the call goes on with the value of the body
Returns(i, value) ==
  IF calls[i].kind = "login"
    THEN LoginStores(i, value)
    ELSE Resolve(i, value) /\ UNCHANGED <<authToken, org, isTwoFactor, granted>>

Throws(i, error) == Reject(i, error) /\ UNCHANGED <<authToken, org, isTwoFactor, granted>>

\* handleErrors with a fallback for a body that is no JSON:
\* json = await response.json().catch(() => null), then the status text
BodyNotJsonStatusText(response, location) ==
  Thrown("Error", <<RequestFailed, location, " = ", response.statusText>>)

\* handleErrors: await response.json() rejects with the parse failure, and
\* nothing catches it
BodyNotJson(response, location) == SyntaxError

\* an arrayBuffer() of the response json() has read: the body is used up
CloneArrayBufferUsed(response) == TypeError

\* clone = response.clone() before json() reads the body, so
\* clone.arrayBuffer() has the whole body to read
CloneArrayBuffer(response) == ArrayBuffer(response.body)

\* response.json() settles
JsonSettles(i) ==
  /\ i \in DOMAIN calls
  /\ LET c == calls[i].client
         response == calls[i].response
         json == ParsedJson(response)
     IN CASE calls[i].pc = "handleErrors.json" ->
               IF ParsesAsJson(response)
                 THEN Throws(i, ErrorsError(json, calls[i].location))
                 ELSE Throws(i, BodyNotJson(response, calls[i].location))
          [] calls[i].pc = "responseType.json" ->
               IF ParsesAsJson(response) /\ ~ResponseTypeCatches(c, json)
                 THEN Returns(i, ResponseTypeJson(c, json))
                 ELSE Await(i, "responseType.arrayBuffer")
                        /\ UNCHANGED <<authToken, org, isTwoFactor, granted>>
          [] calls[i].pc = "json" ->
               IF ~ParsesAsJson(response) THEN Throws(i, SyntaxError)
               ELSE IF ~Ok(response) THEN Throws(i, ErrorsErrorP(json))
               ELSE Returns(i, json)
          [] OTHER -> FALSE
  /\ apiKey' = apiKey
  /\ info' = [c \in DOMAIN info |->
               Exposed(info[c], c, authToken'[c], org'[c], isTwoFactor'[c])]

\* a read of the body that waits until no login of the client is in flight
ArrayBufferSettlesAfterLogins(i) ==
  /\ i \in DOMAIN calls
  /\ calls[i].pc = "responseType.arrayBuffer"
  /\ ~\E j \in DOMAIN calls :
        j /= i /\ calls[j].kind = "login" /\ calls[j].client = calls[i].client
  /\ LET read == CloneArrayBuffer(calls[i].response) IN
       IF read.t = "error" THEN Throws(i, read) ELSE Returns(i, read)
  /\ apiKey' = apiKey
  /\ info' = [c \in DOMAIN info |->
               Exposed(info[c], c, authToken'[c], org'[c], isTwoFactor'[c])]

\* clone.arrayBuffer() settles
ArrayBufferSettles(i) ==
  /\ i \in DOMAIN calls
  /\ calls[i].pc = "responseType.arrayBuffer"
  /\ LET read == CloneArrayBuffer(calls[i].response) IN
       IF read.t = "error" THEN Throws(i, read) ELSE Returns(i, read)
  /\ apiKey' = apiKey
  /\ info' = [c \in DOMAIN info |->
               Exposed(info[c], c, authToken'[c], org'[c], isTwoFactor'[c])]

-----------------------------------------------------------------------------
(* One caller that awaits each call before it makes the next *)

Next ==
  \/ \E c \in Clients : \E e \in Endpoints(c) : Request(1, c, e)
  \/ \E c \in Clients : \E args \in LoginArgs : Login(1, c, args)
  \/ \E i \in CallIds : \E error \in NetworkFailures : FetchFails(i, error)
  \/ \E i \in CallIds : \E response \in Responses : FetchResolves(i, response)
  \/ \E i \in CallIds : JsonSettles(i)
  \/ \E i \in CallIds : ArrayBufferSettles(i)

Spec == Init /\ [][Next]_vars

-----------------------------------------------------------------------------
(* A caller of one of the main.js clients that makes calls while earlier ones
   are still in flight *)

\* the responses it meets: two sessions (bare and in a data envelope), a body
\* that is no JSON, a failure with an errors list, and a 404
FewResponses ==
  {Response(200, "OK", Json(v)) :
     v \in { SessionJson("t1", "o1", FALSE), SessionJson("t2", "o2", TRUE),
             Obj([data |-> SessionJson("t1", "o1", FALSE), meta |-> Obj([total |-> Str("1")])]),
             Obj([data |-> SessionJson("t2", "o2", TRUE), meta |-> Obj([total |-> Str("1")])]) }}
    \cup {Response(200, "OK", NoJsonBytes)}
    \cup {Response(s, "Bad Request", b) : s \in {400}, b \in FewErrorBodies}
    \cup {Response(404, "Not Found", NoJsonBytes)}

\* those of them that the API of client c gives: a JSON success body comes
\* in a data envelope from the v3 API, and bare from the v4.0 API
AnswersOf(c) ==
  {response \in FewResponses :
     (Ok(response) /\ response.body.t = "json")
       => ("data" \in DOMAIN response.body.v.m <=> c = "V3")}

\* the calls it makes: the operations without params, and a login without
\* organization
FewEndpoints(c) == {e \in Endpoints(c) : e.params = <<>>}

FewLoginArgs == {args \in LoginArgs : args.orgId = Undefined}

\* the caller has made no login that resolved on another main.js client than
\* c, and has no call of another one in flight
OnlyClient(c) ==
  \A d \in MainClients \ {c} :
    /\ granted[d] = Null
    /\ \A j \in DOMAIN calls : calls[j].client /= d

NextOverlapping ==
  \/ \E c \in MainClients : \E e \in FewEndpoints(c) :
       OnlyClient(c) /\ Request(MaxInFlight, c, e)
  \/ \E c \in MainClients : \E args \in FewLoginArgs :
       OnlyClient(c) /\ Login(MaxInFlight, c, args)
  \/ \E i \in CallIds : \E error \in NetworkFailures : FetchFails(i, error)
  \/ \E i \in CallIds : \E response \in FewResponses :
       FetchResolves(i, response) /\ response \in AnswersOf(calls[i].client)
  \/ \E i \in CallIds : JsonSettles(i)
  \/ \E i \in CallIds : ArrayBufferSettles(i)

SpecOverlapping == Init /\ [][NextOverlapping]_vars

\* the fetch of the call at place i settles
FetchSettles(i) ==
  \/ \E error \in NetworkFailures : FetchFails(i, error)
  \/ \E response \in FewResponses :
       FetchResolves(i, response) /\ response \in AnswersOf(calls[i].client)

\* what the call at place i awaits settles: its fetch, its response.json() or
\* its clone.arrayBuffer(), whichever it is at
AwaitedSettles(i) == FetchSettles(i) \/ JsonSettles(i) \/ ArrayBufferSettles(i)

\* what a call awaits settles in the end
Fairness == \A i \in CallIds : WF_vars(AwaitedSettles(i))

\* the same caller, of the v4.0 client of main.js
NextOverlappingV4 ==
  \/ \E c \in {"V4"} : \E e \in FewEndpoints(c) : Request(MaxInFlight, c, e)
  \/ \E c \in {"V4"} : \E args \in FewLoginArgs : Login(MaxInFlight, c, args)
  \/ \E i \in CallIds : \E error \in NetworkFailures : FetchFails(i, error)
  \/ \E i \in CallIds : \E response \in FewResponses :
       FetchResolves(i, response) /\ response \in AnswersOf(calls[i].client)
  \/ \E i \in CallIds : JsonSettles(i)
  \/ \E i \in CallIds : ArrayBufferSettles(i)

SpecFair == Init /\ [][NextOverlappingV4]_vars /\ Fairness

-----------------------------------------------------------------------------
(* One caller of three clients, two of them made by the same function, that
   awaits each call before it makes the next *)

InstancesUsed == {"V4", "V4b", "V3"}

NextInstances ==
  \/ \E c \in InstancesUsed : \E e \in FewEndpoints(c) : Request(1, c, e)
  \/ \E c \in InstancesUsed : \E args \in FewLoginArgs : Login(1, c, args)
  \/ \E i \in CallIds : \E error \in NetworkFailures : FetchFails(i, error)
  \/ \E i \in CallIds : \E response \in FewResponses : FetchResolves(i, response)
  \/ \E i \in CallIds : JsonSettles(i)
  \/ \E i \in CallIds : ArrayBufferSettles(i)

SpecInstances == Init /\ [][NextInstances]_vars

-----------------------------------------------------------------------------
(* Properties *)

Last(s) == s[Len(s)]

\* s holds the pieces of sub, next to one another and in order
Contains(s, sub) ==
  \E k \in 0..(Len(s) - Len(sub)) : SubSeq(s, k + 1, k + Len(sub)) = sub

\* the stored tokens that count as no token
EmptyTokens == {Null, Undefined, Str("")}

\* this step is the invocation of an endpoint operation of client c: it issues
\* the fetch of a new request call, or delivers the outcome of one that sent nothing
Invokes(c) ==
  \/ /\ Len(calls') = Len(calls) + 1
     /\ Last(calls').kind = "request"
     /\ Last(calls').client = c
  \/ /\ calls' = calls
     /\ settled'.status /= "none"
     /\ settled'.call.kind = "request"
     /\ settled'.call.client = c

\* the location a call reports in its errors
LocationOf(call) == IF call.kind = "login" THEN "login" ELSE call.req.url[2]

\* the outcome of a call that got a response
Answered == settled.status /= "none" /\ settled.call.response /= NoResponse

\* a body whose value is an object with a list errors of objects
HasErrorsList(response) ==
  /\ response.body.t = "json"
  /\ response.body.v.t = "object"
  /\ "errors" \in DOMAIN response.body.v.m
  /\ response.body.v.m.errors.t = "array"
  /\ \A i \in DOMAIN response.body.v.m.errors.a : response.body.v.m.errors.a[i].t = "object"

Titled(entry) ==
  "title" \in DOMAIN entry.m /\ entry.m.title.t = "string" /\ entry.m.title.s /= ""

\* the titles of the titled entries, in list order, with " | " between them
JoinedTitles(response) ==
  LET titled == SelectSeq(response.body.v.m.errors.a, Titled)
  IN [k \in 1..(IF titled = <<>> THEN 0 ELSE 2 * Len(titled) - 1) |->
        IF k % 2 = 1 THEN titled[(k + 1) \div 2].m.title.s ELSE " | "]

\* C1: an endpoint operation invoked on a client (of main.js or of part_000) whose
\* stored token is empty rejects with 'No auth token. Make sure to
\* authenticate.login() first' and issues no fetch
C1_UnauthenticatedRejects ==
  [][\A c \in Clients :
       (Invokes(c) /\ authToken[c] \in EmptyTokens)
         => /\ calls' = calls
            /\ settled'.status = "rejected"
            /\ settled'.value = NoAuthTokenError
            /\ settled'.call.fetches = 0]_vars

C1_Witness ==
  /\ settled.status = "rejected"
  /\ settled.value = NoAuthTokenError
  /\ settled.call.kind = "request"
  /\ settled.call.client = "V4p"
  /\ authToken["V4p"] = Null
  /\ calls = <<>>

\* C2: with non-overlapping logins and calls, every fetch of an endpoint
\* operation carries an X-PS-Auth-Token header equal to the token that the most
\* recent successful login of that client returned
C2_CallsCarryLatestToken ==
  \A i \in DOMAIN calls :
    calls[i].kind = "request"
      => /\ granted[calls[i].client] \notin EmptyTokens
         /\ "X-PS-Auth-Token" \in DOMAIN calls[i].req.headers
         /\ calls[i].req.headers["X-PS-Auth-Token"] = ToStr(granted[calls[i].client])

C2_Witness ==
  /\ Len(calls) = 1
  /\ calls[1].kind = "request"
  /\ calls[1].client = "V4"
  /\ calls[1].pc = "fetch"
  /\ calls[1].req.headers["X-PS-Auth-Token"] = "t2"
  /\ granted["V4"] = Str("t2")

\* C3: a login that fails (a non-success response, 404 or other, or a transport
\* failure) leaves the token, the organization id and the two-factor flag as
\* they were
C3_FailedLoginKeepsSession ==
  [][(/\ settled'.status /= "none"
      /\ settled'.call.kind = "login"
      /\ (settled'.status = "rejected" \/ ~Ok(settled'.call.response)))
       => session' = session]_vars

C3_Witness ==
  /\ settled.status = "rejected"
  /\ settled.call.kind = "login"
  /\ settled.call.client = "V4"
  /\ settled.call.response = NoResponse
  /\ authToken["V4"] = Str("t1")
  /\ org["V4"] = Str("o1")
  /\ isTwoFactor["V4"] = Bool(FALSE)

\* C4: only a login changes the session: a step changes the token, the
\* organization id or the two-factor flag only if it is the step that settles a
\* login, never a step of another endpoint operation, whatever its outcome
C4_OnlyLoginChangesSession ==
  [][(settled'.status = "none" \/ settled'.call.kind = "request")
       => session' = session]_vars

C4_Witness ==
  /\ settled.status = "resolved"
  /\ settled.call.kind = "request"
  /\ settled.call.client = "V4"
  /\ settled.value = SessionJson("t2", "o2", TRUE)
  /\ authToken["V4"] = Str("t1")
  /\ org["V4"] = Str("o1")

\* C5: every fetch of the request pipeline carries an auth-token header equal
\* to the token stored at that moment, an API-key header equal to the key the
\* client was constructed with, and a content-type header
C5_RequestHeaders ==
  [][\A c \in Clients :
       (/\ Len(calls') = Len(calls) + 1
        /\ Last(calls').kind = "request"
        /\ Last(calls').client = c)
         => LET headers == Last(calls').req.headers IN
              /\ {"X-PS-Auth-Token", "X-PS-API-Key", "Content-Type"} \subseteq DOMAIN headers
              /\ headers["X-PS-Auth-Token"] = ToStr(authToken[c])
              /\ headers["X-PS-API-Key"] = ConstructedKey(c)]_vars

C5_Witness ==
  /\ Len(calls) = 1
  /\ calls[1].kind = "request"
  /\ calls[1].client = "V3"
  /\ calls[1].pc = "fetch"
  /\ calls[1].req.headers = ("X-PS-Auth-Token" :> "t1") @@ ("X-PS-API-Key" :> "key-V3")
                              @@ ("Content-Type" :> "application/json")

\* C6: a header that an operation supplies in its options under the name of a
\* default header is the value that is sent (faces.add and faces.updateById are
\* sent with Content-Type application/x-www-form-urlencoded)
C6_SuppliedHeaderOverrides ==
  \A i \in DOMAIN calls : \A e \in Endpoints(calls[i].client) :
    (calls[i].kind = "request" /\ e.endpoint = calls[i].location)
      => \A name \in DOMAIN HeadersOf(e.options) :
           calls[i].req.headers[name] = HeadersOf(e.options)[name]

\* C7: a call whose response has a non-success status rejects with an error and
\* returns no value, whatever the status and the body (so a call resolves only
\* on a success status)
C7_FailureStatusRejects ==
  (Answered /\ ~Ok(settled.call.response))
    => settled.status = "rejected" /\ settled.value.t = "error"

C7_Witness ==
  /\ Answered
  /\ settled.call.kind = "request"
  /\ settled.call.response = Response(500, "Internal Server Error", NoJsonBytes)
  /\ settled.status = "rejected"
  /\ settled.value = SyntaxError

C9_ErrorTitles ==
  (/\ Answered
   /\ settled.call.client \in MainClients
   /\ ~Ok(settled.call.response)
   /\ settled.call.response.status /= 404
   /\ HasErrorsList(settled.call.response))
    => /\ settled.status = "rejected"
       /\ settled.value.name = "Error"
       /\ settled.value.message =
            <<RequestFailed, LocationOf(settled.call), " = ">>
              \o JoinedTitles(settled.call.response)

C9_Witness ==
  /\ Answered
  /\ settled.call.client = "V4"
  /\ settled.call.response.status = 400
  /\ settled.call.response.body =
       Json(Obj([errors |-> Arr(<<Obj([title |-> Str("Invalid field")]),
                                  Obj([title |-> Str("Missing param")])>>)]))
  /\ settled.value.message =
       <<RequestFailed, "/collections", " = ", "Invalid field", " | ", "Missing param">>

\* C10: in the client of part_000 a non-success response whose body has an
\* errors list with one or more titled entries makes the call reject with an
\* error whose message holds those titles joined by ' | '
C10_Part000ErrorTitles ==
  (/\ Answered
   /\ settled.call.client = "V4p"
   /\ ~Ok(settled.call.response)
   /\ HasErrorsList(settled.call.response)
   /\ JoinedTitles(settled.call.response) /= <<>>)
    => /\ settled.status = "rejected"
       /\ settled.value.t = "error"
       /\ Contains(settled.value.message, JoinedTitles(settled.call.response))

\* C11: in the main.js clients an endpoint operation whose response is a
\* success with a body that is no JSON resolves with the raw bytes of that
\* body, byte for byte; json is tried first, so a body that holds a JSON
\* object is never delivered as bytes
C11_RawBytes ==
  (/\ Answered
   /\ settled.call.client \in MainClients
   /\ settled.call.kind = "request"
   /\ Ok(settled.call.response))
    => /\ settled.call.response.body.t = "bytes"
            => /\ settled.status = "resolved"
               /\ settled.value.t = "ArrayBuffer"
               /\ settled.value.bytes = settled.call.response.body
       /\ (settled.call.response.body.t = "json"
             /\ settled.call.response.body.v.t = "object")
            => settled.value.t /= "ArrayBuffer"

C11_Witness ==
  /\ Answered
  /\ settled.call.client = "V3"
  /\ settled.call.kind = "request"
  /\ settled.call.response = Response(200, "OK", NoJsonBytes)
  /\ settled.status = "resolved"
  /\ settled.value.bytes.b = <<137, 80, 78, 71>>

\* C12: an endpoint operation whose response is a success with a JSON object
\* for a body resolves, in the v3 client, with exactly the value of the data
\* member of that object, and in the v4.0 client of main.js with the whole object
C12_Unwraps ==
  (/\ Answered
   /\ settled.call.client \in MainClients
   /\ settled.call.kind = "request"
   /\ Ok(settled.call.response)
   /\ settled.call.response.body.t = "json"
   /\ settled.call.response.body.v.t = "object")
    => /\ settled.status = "resolved"
       /\ settled.value =
            IF settled.call.client = "V4" THEN settled.call.response.body.v
            ELSE IF "data" \in DOMAIN settled.call.response.body.v.m
              THEN settled.call.response.body.v.m.data
            ELSE Undefined

C12_Witness ==
  /\ Answered
  /\ settled.call.client = "V3"
  /\ settled.call.kind = "request"
  /\ settled.call.response.body =
       Json(Obj([data |-> Obj([id |-> Str("abc")]), meta |-> Obj([total |-> Str("1")])]))
  /\ settled.status = "resolved"
  /\ settled.value = Obj([id |-> Str("abc")])

\* what the receiver of a form-encoded string reads in it: the string cut at
\* each "&", each part cut at its first "=", "+" read as a space and each
\* escape as its character
SplitAt(s, separator) ==
  LET RECURSIVE From(_, _)
      From(k, part) ==
        IF k > Len(s) THEN <<part>>
        ELSE IF s[k] = separator THEN <<part>> \o From(k + 1, <<>>)
        ELSE From(k + 1, Append(part, s[k]))
  IN From(1, <<>>)

Unescaped(piece) ==
  CASE piece = "+" -> " "
    [] piece = "%20" -> " "
    [] piece = "%26" -> "&"
    [] piece = "%3D" -> "="
    [] piece = "%40" -> "@"
    [] piece = "%2B" -> "+"
    [] OTHER -> piece

Decoded(s) == [k \in DOMAIN s |-> Unescaped(s[k])]

ParsedPair(part) ==
  LET cut == SplitAt(part, "=")
  IN <<Decoded(cut[1]), Decoded(SubSeq(part, Len(cut[1]) + 2, Len(part)))>>

ParsedForm(s) ==
  LET parts == SelectSeq(SplitAt(s, "&"), LAMBDA part : part /= <<>>)
  IN [k \in DOMAIN parts |-> ParsedPair(parts[k])]

\* the keys of an object, each with its value as a string
Pairs(obj) == [k \in DOMAIN obj |-> <<obj[k][1], obj[k][2].chars>>]

\* C13: the fetch of an endpoint operation goes to base URL + endpoint, and its
\* query string holds every key of the params with its value, percent-encoded:
\* the receiver reads in it the pairs of the params and no other, and an "&" of
\* a value is sent as "%26"
C13_ParamsInQuery ==
  \A i \in DOMAIN calls :
    calls[i].kind = "request"
      => /\ calls[i].req.url[1] =
              (IF calls[i].client = "V3" THEN "https://www.photoshelter.com/psapi/v3"
               ELSE "https://www.photoshelter.com/psapi/v4.0")
         /\ calls[i].req.url[2] = calls[i].location
         /\ ParsedForm(calls[i].req.search) = Pairs(calls[i].args)
         /\ \A k \in DOMAIN calls[i].args :
              \A j \in DOMAIN calls[i].args[k][2].chars :
                calls[i].args[k][2].chars[j] = "&"
                  => /\ Contains(calls[i].req.search, <<"=">> \o
                          [n \in 1..j |-> IF n = j THEN "%26"
                                          ELSE calls[i].args[k][2].chars[n]])

C13_Witness ==
  \E i \in DOMAIN calls :
    /\ calls[i].kind = "request"
    /\ calls[i].client = "V4"
    /\ calls[i].args = << <<(<<"query">>), Chars(<<"a", "&", "b", "=", "c", " ", "d">>)>> >>
    /\ calls[i].req.url = <<"https://www.photoshelter.com/psapi/v4.0", "/collections">>
    /\ calls[i].req.search = <<"query", "=", "a", "%26", "b", "%3D", "c", "+", "d">>

\* a login argument that has a value: a string that is not empty
NonEmpty(v) == v.t = "text" /\ v.chars /= <<>>

\* email, password, mode and org_id of a login, those that have a value
FieldsGiven(args) ==
  Pairs(SelectSeq(<< <<(<<"email">>), args.email>>, <<(<<"password">>), args.password>>,
                     <<(<<"mode">>), Chars(<<"token">>)>>, <<(<<"org_id">>), args.orgId>> >>,
                  LAMBDA e : NonEmpty(e[2])))

\* the receiver of the form body of a login reads in it email, password, mode
\* and org_id, each with its value, for exactly those that have a value
BodyHoldsFieldsGiven(call) ==
  /\ call.req.body.t = "text"
  /\ ParsedForm(call.req.body.chars) = FieldsGiven(call.args)
  /\ ~NonEmpty(call.args.orgId)
       => ~Contains(call.req.body.chars, <<"org_id">>)

\* C14: in the main.js clients the form body of a login holds key=value for
\* exactly those of email, password, mode and org_id whose value is non-empty;
\* a login without organization id sends no org_id key
C14_LoginFormBody ==
  \A i \in DOMAIN calls :
    (calls[i].kind = "login" /\ calls[i].client \in MainClients)
      => BodyHoldsFieldsGiven(calls[i])

C14_Witness ==
  \E i \in DOMAIN calls :
    /\ calls[i].kind = "login"
    /\ calls[i].client = "V4"
    /\ calls[i].args.orgId = Undefined
    /\ calls[i].req.body.chars =
         <<"email", "=", "a", "%40", "b", "&", "password", "=", "p", "%26", "w", "&",
           "mode", "=", "token">>

\* C15: in the client of part_000 the form body of a login leaves out every
\* field whose value is empty or absent
C15_Part000LoginFormBody ==
  \A i \in DOMAIN calls :
    (calls[i].kind = "login" /\ calls[i].client = "V4p")
      => BodyHoldsFieldsGiven(calls[i])

\* C16: whatever the state of the client (a token stored or none), the fetch
\* of a login is a POST to the login path of its API, with the API-key header
\* and the form-urlencoded content type for its only headers: it never carries
\* an auth-token header
C16_LoginRequest ==
  [][\A c \in Clients :
       (/\ Len(calls') = Len(calls) + 1
        /\ Last(calls').kind = "login"
        /\ Last(calls').client = c)
         => LET req == Last(calls').req IN
              /\ req.method = "POST"
              /\ req.url = IF c = "V3"
                             THEN <<"https://www.photoshelter.com/psapi/v3", "/mem/authenticate">>
                             ELSE <<"https://www.photoshelter.com/psapi/v4.0", "/authenticate">>
              /\ req.search = <<>>
              /\ DOMAIN req.headers = {"content-type", "X-PS-Api-Key"}
              /\ req.headers["content-type"] = "application/x-www-form-urlencoded"
              /\ req.headers["X-PS-Api-Key"] = ConstructedKey(c)
              /\ \A h \in DOMAIN req.headers : req.headers[h] /= ToStr(authToken[c])]_vars

C16_Witness ==
  /\ Len(calls) = 1
  /\ calls[1].kind = "login"
  /\ calls[1].client = "V3"
  /\ calls[1].pc = "fetch"
  /\ authToken["V3"] = Str("t1")
  /\ calls[1].req.url[2] = "/mem/authenticate"
  /\ DOMAIN calls[1].req.headers = {"content-type", "X-PS-Api-Key"}

\* C17: when the fetch of an endpoint operation or of a login fails in
\* transport, the call rejects with that very failure, not wrapped and not
\* replaced, and the step leaves the session as it was
C17_TransportFailure ==
  [][(settled'.status /= "none" /\ settled'.call.failure /= NoFailure)
       => /\ settled'.status = "rejected"
          /\ settled'.value = settled'.call.failure
          /\ settled'.value \in NetworkFailures
          /\ session' = session]_vars

C17_Witness ==
  /\ settled.status = "rejected"
  /\ settled.call.kind = "login"
  /\ settled.call.client = "V4"
  /\ settled.call.failure = Thrown("AbortError", <<"This operation was aborted">>)
  /\ settled.value = Thrown("AbortError", <<"This operation was aborted">>)
  /\ authToken["V4"] = Str("t1")
  /\ org["V4"] = Str("o1")

\* C18: an endpoint operation invoked on a client that holds a token, and a
\* login, issue one fetch, and the call has issued exactly that one when it
\* settles, whatever its outcome: nothing is fetched again
C18_OneFetch ==
  [][ /\ \A c \in Clients :
           (Invokes(c) /\ authToken[c] \notin EmptyTokens)
             => (Len(calls') = Len(calls) + 1 /\ Last(calls').fetches = 1)
      /\ ((Len(calls') = Len(calls) + 1 /\ Last(calls').kind = "login")
            => Last(calls').fetches = 1)
      /\ \A i \in DOMAIN calls' : calls'[i].fetches = 1
      /\ ((settled'.status /= "none" /\ settled'.call.req /= NoRequest)
            => settled'.call.fetches = 1) ]_vars

C18_Witness ==
  /\ settled.status = "rejected"
  /\ settled.call.kind = "request"
  /\ settled.call.failure /= NoFailure
  /\ settled.call.fetches = 1

\* C19: a response that is no success and no 404, with a body that is no
\* JSON, makes the call reject with the parse failure of that body itself: no
\* 'Request Failed' error is made of it, nothing catches it, and no other
\* reading of the body is tried
C19_UnparseableFailure ==
  (/\ Answered
   /\ ~Ok(settled.call.response)
   /\ settled.call.response.status /= 404
   /\ settled.call.response.body.t = "bytes")
    => /\ settled.status = "rejected"
       /\ settled.value = SyntaxError
       /\ ~Contains(settled.value.message, <<RequestFailed>>)

C19_Witness ==
  /\ Answered
  /\ settled.call.client = "V4"
  /\ settled.call.kind = "request"
  /\ settled.call.response = Response(500, "Internal Server Error", NoJsonBytes)
  /\ settled.status = "rejected"
  /\ settled.value.name = "SyntaxError"

JsonText(obj) ==
  <<"{">> \o JoinChars([k \in DOMAIN obj |->
                          <<"\"">> \o obj[k][1] \o <<"\"", ":", "\"">> \o obj[k][2].chars
                            \o <<"\"">>], ",")
        \o <<"}">>

\* C21: the fetch of an operation that creates or updates a resource (POST, PUT
\* or PATCH, and no form content type of its own) carries the data of the
\* operation as a JSON request body
C21_JsonBody ==
  \A i \in DOMAIN calls :
    (/\ calls[i].kind = "request"
     /\ calls[i].client = "V4"
     /\ calls[i].req.method \in {"POST", "PUT", "PATCH"}
     /\ calls[i].location \in {"/collections", "/galleries/g1", "/ml-metadata/m1"})
      => calls[i].req.body = Chars(JsonText(calls[i].args))

\* the session of client c
SessionOf(c) == <<authToken[c], org[c], isTwoFactor[c]>>

\* C22: every client starts with an empty session and owns it alone: the
\* session of a client changes only in the step in which a login of that same
\* client resolves, so a client none of whose logins has resolved (granted is
\* still null) has an empty session, whatever the other clients, of its own or
\* of the other API version, have done, and its endpoint operations reject as
\* unauthenticated
C22_OwnSession ==
  [][\A c \in InstancesUsed :
       /\ SessionOf(c)' /= SessionOf(c)
            => /\ settled'.status = "resolved"
               /\ settled'.call.kind = "login"
               /\ settled'.call.client = c
       /\ granted[c] = Null => SessionOf(c) = <<Null, Null, Null>>
       /\ granted'[c] = Null => SessionOf(c)' = <<Null, Null, Null>>
       /\ (Invokes(c) /\ granted[c] = Null)
            => /\ settled'.status = "rejected"
               /\ settled'.value = NoAuthTokenError
               /\ calls' = calls]_vars

C22_Witness ==
  /\ authToken["V4"] = Str("t1")
  /\ org["V4"] = Str("o1")
  /\ SessionOf("V4b") = <<Null, Null, Null>>
  /\ SessionOf("V3") = <<Null, Null, Null>>
  /\ settled.status = "rejected"
  /\ settled.call.client = "V4b"
  /\ settled.value = NoAuthTokenError

\* C23: when a login of a main.js client resolves, the client holds a
\* non-empty token afterwards, and a client that holds a non-empty token never
\* goes back to an empty one
C23_LoginAuthenticates ==
  [][\A c \in MainClients :
       /\ (/\ settled'.status = "resolved"
           /\ settled'.call.kind = "login"
           /\ settled'.call.client = c)
            => authToken'[c] \notin EmptyTokens
       /\ authToken[c] \notin EmptyTokens => authToken'[c] \notin EmptyTokens]_vars

\* the fetches of the calls in flight, oldest first
Fetches(s) == [k \in DOMAIN s |-> s[k].req]

\* C24: the token test and the auth-token header of an endpoint operation are
\* those of the moment it is invoked: it is sent with the token stored then,
\* no later step (a login that stores another token among them) alters the
\* fetch of a call in flight, and a success response is delivered as usual
\* whatever token is stored when it arrives
C24_TokenFixedAtInvocation ==
  [][ /\ \A c \in MainClients :
           (/\ Len(calls') = Len(calls) + 1
            /\ Last(calls').kind = "request"
            /\ Last(calls').client = c)
             => /\ authToken[c] \notin EmptyTokens
                /\ Last(calls').req.headers["X-PS-Auth-Token"] = ToStr(authToken[c])
      /\ \/ /\ Len(calls') = Len(calls) + 1
            /\ SubSeq(Fetches(calls'), 1, Len(calls)) = Fetches(calls)
         \/ /\ Len(calls') = Len(calls)
            /\ Fetches(calls') = Fetches(calls)
         \/ /\ Len(calls') = Len(calls) - 1
            /\ \E i \in DOMAIN calls : Fetches(calls') = RemoveAt(Fetches(calls), i)
      /\ (/\ settled'.status /= "none"
          /\ settled'.call.kind = "request"
          /\ settled'.call.response /= NoResponse
          /\ Ok(settled'.call.response)
          /\ settled'.call.response.body.t = "json"
          /\ settled'.call.response.body.v.t = "object")
           => /\ settled'.status = "resolved"
              /\ settled'.value =
                   IF settled'.call.client = "V4" THEN settled'.call.response.body.v
                   ELSE IF "data" \in DOMAIN settled'.call.response.body.v.m
                     THEN settled'.call.response.body.v.m.data
                   ELSE Undefined ]_vars

C24_Witness ==
  /\ settled.status = "resolved"
  /\ settled.call.kind = "request"
  /\ settled.call.client = "V4"
  /\ settled.call.req.headers["X-PS-Auth-Token"] = "t1"
  /\ authToken["V4"] = Str("t2")
  /\ settled.value.t = "object"

\* a login of client c is in flight
LoginInFlight(c) == \E j \in DOMAIN calls : calls[j].kind = "login" /\ calls[j].client = c

\* C25: an endpoint operation invoked while the first login of its client is
\* still in flight rejects as unauthenticated and issues no fetch, also when
\* that login succeeds later; it is not queued behind the login, and the step
\* in which a login settles starts no call
C25_CallDuringFirstLogin ==
  [][ /\ \A c \in MainClients :
           (Invokes(c) /\ authToken[c] \in EmptyTokens /\ LoginInFlight(c))
             => /\ calls' = calls
                /\ settled'.status = "rejected"
                /\ settled'.value = NoAuthTokenError
                /\ settled'.call.fetches = 0
      /\ (settled'.status /= "none" /\ settled'.call.kind = "login")
           => /\ Len(calls') = Len(calls) - 1
              /\ \E i \in DOMAIN calls : Fetches(calls') = RemoveAt(Fetches(calls), i) ]_vars

C25_Witness ==
  /\ settled.status = "rejected"
  /\ settled.value = NoAuthTokenError
  /\ settled.call.kind = "request"
  /\ settled.call.client = "V4"
  /\ authToken["V4"] = Null
  /\ Len(calls) = 1
  /\ calls[1].kind = "login"
  /\ calls[1].client = "V4"
  /\ calls[1].pc = "responseType.json"
  /\ Ok(calls[1].response)
  /\ TokenIn("V4", calls[1].response) = Str("t1")

\* the session a login response holds: the token, org and two_factor members
\* of the body's value (v4.0) or of its data member (v3), undefined where there
\* is none
SessionIn(c, response) ==
  LET holder == IF response.body.t /= "json" THEN Undefined
                ELSE IF c /= "V3" THEN response.body.v
                ELSE IF response.body.v.t = "object" /\ "data" \in DOMAIN response.body.v.m
                  THEN response.body.v.m.data
                ELSE Undefined
      Member(k) == IF holder.t = "object" /\ k \in DOMAIN holder.m THEN holder.m[k]
                   ELSE Undefined
  IN <<Member("token"), Member("org"), Member("two_factor")>>

\* C26: when logins of one client overlap, the session that remains is that of
\* the login whose response is processed last: every login that resolves
\* stores the session of its own response, also a login that was invoked
\* before one that has stored its session already
C26_LastProcessedLoginWins ==
  [][\A c \in MainClients :
       (/\ settled'.status = "resolved"
        /\ settled'.call.kind = "login"
        /\ settled'.call.client = c)
         => SessionOf(c)' = SessionIn(c, settled'.call.response)]_vars

C26_Witness ==
  /\ settled.status = "resolved"
  /\ settled.call.kind = "login"
  /\ settled.call.client = "V4"
  /\ settled.call.overtakenBy = Str("t2")
  /\ SessionOf("V4") = <<Str("t1"), Str("o1"), Bool(FALSE)>>

\* C27: in every state reached under any interleaving of logins and endpoint
\* operations, the token, the org and the two-factor flag a main.js client
\* stores are all still empty or all those of one login response: no state
\* holds the token of one response with the org or the flag of another
C27_SessionOfOneLogin ==
  \A c \in MainClients :
    \/ SessionOf(c) = <<Null, Null, Null>>
    \/ \E response \in AnswersOf(c) :
         Ok(response) /\ SessionOf(c) = SessionIn(c, response)

C27_Witness ==
  /\ SessionOf("V3") = <<Str("t2"), Str("o2"), Bool(TRUE)>>
  /\ Len(calls) = 2
  /\ calls[1].kind = "login"
  /\ calls[1].client = "V3"
  /\ calls[1].pc = "responseType.json"
  /\ TokenIn("V3", calls[1].response) = Str("t1")
  /\ calls[1].overtakenBy = Str("t2")
  /\ calls[2].kind = "request"

\* C28: the session record a client exposes (info of the v4.0 client of
\* main.js, the authToken field of the client of part_000) is fixed when the
\* client is constructed: after any operations, successful logins among them,
\* its fields hold their first, empty value and never the stored token
C28_ExposedSessionFixed ==
  /\ info["V4"] = [authToken |-> Null, org |-> Null, isTwoFactor |-> Null]
  /\ info["V4p"] = [authToken |-> Null]

C28_Witness ==
  /\ authToken["V4"] = Str("t1")
  /\ org["V4"] = Str("o1")
  /\ info["V4"].authToken = Null
  /\ info["V4"].org = Null
  /\ authToken["V4p"] = Str("t2")
  /\ info["V4p"].authToken = Null

\* C29: when the fetch and the body reads that calls await settle in the end,
\* every call in flight settles, resolved or rejected, whatever other calls
\* are in flight with it: again and again nothing is in flight or the oldest
\* call in flight settles, so each call settles once the calls invoked before
\* it, which are at most MaxInFlight - 1, have done so
C29_EveryCallSettles ==
  \/ []<>(calls = <<>>)
  \/ []<><<calls /= <<>> /\ calls' = Tail(calls)
             /\ settled'.status \in {"resolved", "rejected"}>>_vars

C29_Witness ==
  /\ settled.status = "resolved"
  /\ settled.call.kind = "request"
  /\ Len(calls) = 1
  /\ calls[1].kind = "login"
  /\ calls[1].client = settled.call.client
  /\ calls[1].pc = "fetch"

====
